---- MODULE Spec2Model ----
(***************************************************************************)
(* A model of the rs6502 CPU core (src/src/cpu/cpu.rs): Cpu::new,          *)
(* Cpu::load, Cpu::step with every opcode handler of the dispatch in step, *)
(* and Cpu::step_n; and of the assembler's semantic pass                   *)
(* (src/src/assembler/parser.rs): Parser::new and Parser::parse.           *)
(* Bytes are 0..255 and addresses 0..65535; u16 arithmetic keeps its       *)
(* width.  Rust checks integer overflow only in builds with overflow       *)
(* checks (the debug profile); the build is the variable overflow_checks,  *)
(* fixed at construction.                                                  *)
(*                                                                         *)
(* The modules opcodes, cpu::memory_bus, cpu::registers, cpu::flags,       *)
(* cpu::stack, cpu::cpu_error and assembler::token are used by cpu.rs and  *)
(* parser.rs but their source is not in src/; they are modelled from       *)
(* spec.md sections 3, 4 and 7.                                            *)
(*                                                                         *)
(* Three specifications share the variables: Spec drives a Cpu with load   *)
(* and step, StepNSpec drives it with load and step_n, ParserSpec drives   *)
(* a Parser.  The Parser stands still in the first two, the Cpu in the     *)
(* third.                                                                  *)
(*                                                                         *)
(* A call that panics does not return: call.result is "Panic", the Cpu is  *)
(* left as it was when the panic struck, and no further call is made.      *)
(***************************************************************************)
EXTENDS Integers, Sequences, FiniteSets, TLC

VARIABLES
    memory,           \* Cpu.memory: the 64 KiB bus, as the map of its non-zero bytes
    registers,        \* Cpu.registers: [A, X, Y, PC, SP]
    flags,            \* Cpu.flags: the seven status flags
    stack,            \* Cpu.stack: the Stack's own pointer
    overflow_checks,  \* TRUE in a build that panics on integer overflow
    call,             \* the last call made on the Cpu and what it returned
    pre,              \* the Cpu as it was when that call was made
    steps,            \* number of step and step_n calls made so far
    loaded,           \* TRUE once the program has been loaded
    parser,           \* the Parser: [tokens, line]
    given,            \* the token stream Parser::new was called with
    parsed,           \* the last call of parse and what it returned
    parses            \* number of parse calls made so far

cpu_vars == <<memory, registers, flags, stack, overflow_checks, call, pre, steps, loaded>>
parser_vars == <<parser, given, parsed, parses>>
vars == <<cpu_vars, parser_vars>>

----------------------------------------------------------------------------
(* Program constants *)

DEFAULT_CODE_SEGMENT_START_ADDRESS == 49152   \* 0xC000
STACK_START == 256                            \* 0x100
U16_MAX == 65535                              \* u16::max_value()
MEMORY_LEN == 65536                           \* MemoryBus::len()
INITIAL_SP == 255                             \* 0xFF

(* Bounds of the exploration *)
MaxSteps == 4
MaxN == 3
MaxParses == 2

----------------------------------------------------------------------------
(* Bit arithmetic on unsigned integers, as Rust's &, ^ and << on u8/u16 *)

Bit(v, i) == (v \div (2 ^ i)) % 2

\* a & b
RECURSIVE BitAnd(_, _)
BitAnd(a, b) ==
    IF a = 0 \/ b = 0 THEN 0
    ELSE (IF a % 2 = 1 /\ b % 2 = 1 THEN 1 ELSE 0) + 2 * BitAnd(a \div 2, b \div 2)

\* a ^ b
RECURSIVE BitXor(_, _)
BitXor(a, b) ==
    IF a = 0 THEN b
    ELSE IF b = 0 THEN a
    ELSE (IF a % 2 # b % 2 THEN 1 ELSE 0) + 2 * BitXor(a \div 2, b \div 2)

\* `v as u8`
AsU8(v) == v % 256

\* u16 addition: wraps in a build without overflow checks, otherwise the
\* panic is reported as Overflow
Overflow == 0 - 1
IsOverflow(v) == v < 0

AddU16(a, b) ==
    IF IsOverflow(a) \/ IsOverflow(b) THEN Overflow
    ELSE IF a + b > U16_MAX
         THEN (IF overflow_checks THEN Overflow ELSE (a + b) % MEMORY_LEN)
         ELSE a + b

SubU16(a, b) ==
    IF IsOverflow(a) \/ IsOverflow(b) THEN Overflow
    ELSE IF a - b < 0
         THEN (IF overflow_checks THEN Overflow ELSE (a - b) % MEMORY_LEN)
         ELSE a - b

----------------------------------------------------------------------------
(* cpu::memory_bus (spec.md 4.2) *)

EmptyMemory == [a \in {} |-> 0]

read_byte(mem, addr) == IF addr \in DOMAIN mem THEN mem[addr] ELSE 0

write_byte(mem, addr, value) ==
    LET dom == IF value = 0 THEN DOMAIN mem \ {addr} ELSE DOMAIN mem \cup {addr}
    IN  [a \in dom |-> IF a = addr THEN value ELSE mem[a]]

\* little-endian; the high byte of a read at 0xFFFF comes from 0x0000
read_u16(mem, addr) ==
    read_byte(mem, addr) + 256 * read_byte(mem, (addr + 1) % MEMORY_LEN)

----------------------------------------------------------------------------
(* opcodes (spec.md 3 and 4.1): one descriptor per legal byte *)

OpCodeTable == {
    <<0, "BRK", "Implied">>, <<1, "ORA", "IndirectX">>, <<5, "ORA", "ZeroPage">>,
    <<6, "ASL", "ZeroPage">>, <<8, "PHP", "Implied">>, <<9, "ORA", "Immediate">>,
    <<10, "ASL", "Accumulator">>, <<13, "ORA", "Absolute">>, <<14, "ASL", "Absolute">>,
    <<16, "BPL", "Relative">>, <<17, "ORA", "IndirectY">>, <<21, "ORA", "ZeroPageX">>,
    <<22, "ASL", "ZeroPageX">>, <<24, "CLC", "Implied">>, <<25, "ORA", "AbsoluteY">>,
    <<29, "ORA", "AbsoluteX">>, <<30, "ASL", "AbsoluteX">>, <<32, "JSR", "Absolute">>,
    <<33, "AND", "IndirectX">>, <<36, "BIT", "ZeroPage">>, <<37, "AND", "ZeroPage">>,
    <<38, "ROL", "ZeroPage">>, <<40, "PLP", "Implied">>, <<41, "AND", "Immediate">>,
    <<42, "ROL", "Accumulator">>, <<44, "BIT", "Absolute">>, <<45, "AND", "Absolute">>,
    <<46, "ROL", "Absolute">>, <<48, "BMI", "Relative">>, <<49, "AND", "IndirectY">>,
    <<53, "AND", "ZeroPageX">>, <<54, "ROL", "ZeroPageX">>, <<56, "SEC", "Implied">>,
    <<57, "AND", "AbsoluteY">>, <<61, "AND", "AbsoluteX">>, <<62, "ROL", "AbsoluteX">>,
    <<64, "RTI", "Implied">>, <<65, "EOR", "IndirectX">>, <<69, "EOR", "ZeroPage">>,
    <<70, "LSR", "ZeroPage">>, <<72, "PHA", "Implied">>, <<73, "EOR", "Immediate">>,
    <<74, "LSR", "Accumulator">>, <<76, "JMP", "Absolute">>, <<77, "EOR", "Absolute">>,
    <<78, "LSR", "Absolute">>, <<80, "BVC", "Relative">>, <<81, "EOR", "IndirectY">>,
    <<85, "EOR", "ZeroPageX">>, <<86, "LSR", "ZeroPageX">>, <<88, "CLI", "Implied">>,
    <<89, "EOR", "AbsoluteY">>, <<93, "EOR", "AbsoluteX">>, <<94, "LSR", "AbsoluteX">>,
    <<96, "RTS", "Implied">>, <<97, "ADC", "IndirectX">>, <<101, "ADC", "ZeroPage">>,
    <<102, "ROR", "ZeroPage">>, <<104, "PLA", "Implied">>, <<105, "ADC", "Immediate">>,
    <<106, "ROR", "Accumulator">>, <<108, "JMP", "Indirect">>, <<109, "ADC", "Absolute">>,
    <<110, "ROR", "Absolute">>, <<112, "BVS", "Relative">>, <<113, "ADC", "IndirectY">>,
    <<117, "ADC", "ZeroPageX">>, <<118, "ROR", "ZeroPageX">>, <<120, "SEI", "Implied">>,
    <<121, "ADC", "AbsoluteY">>, <<125, "ADC", "AbsoluteX">>, <<126, "ROR", "AbsoluteX">>,
    <<129, "STA", "IndirectX">>, <<132, "STY", "ZeroPage">>, <<133, "STA", "ZeroPage">>,
    <<134, "STX", "ZeroPage">>, <<136, "DEY", "Implied">>, <<138, "TXA", "Implied">>,
    <<140, "STY", "Absolute">>, <<141, "STA", "Absolute">>, <<142, "STX", "Absolute">>,
    <<144, "BCC", "Relative">>, <<145, "STA", "IndirectY">>, <<148, "STY", "ZeroPageX">>,
    <<149, "STA", "ZeroPageX">>, <<150, "STX", "ZeroPageY">>, <<152, "TYA", "Implied">>,
    <<153, "STA", "AbsoluteY">>, <<154, "TXS", "Implied">>, <<157, "STA", "AbsoluteX">>,
    <<160, "LDY", "Immediate">>, <<161, "LDA", "IndirectX">>, <<162, "LDX", "Immediate">>,
    <<164, "LDY", "ZeroPage">>, <<165, "LDA", "ZeroPage">>, <<166, "LDX", "ZeroPage">>,
    <<168, "TAY", "Implied">>, <<169, "LDA", "Immediate">>, <<170, "TAX", "Implied">>,
    <<172, "LDY", "Absolute">>, <<173, "LDA", "Absolute">>, <<174, "LDX", "Absolute">>,
    <<176, "BCS", "Relative">>, <<177, "LDA", "IndirectY">>, <<180, "LDY", "ZeroPageX">>,
    <<181, "LDA", "ZeroPageX">>, <<182, "LDX", "ZeroPageY">>, <<184, "CLV", "Implied">>,
    <<185, "LDA", "AbsoluteY">>, <<186, "TSX", "Implied">>, <<188, "LDY", "AbsoluteX">>,
    <<189, "LDA", "AbsoluteX">>, <<190, "LDX", "AbsoluteY">>, <<192, "CPY", "Immediate">>,
    <<193, "CMP", "IndirectX">>, <<196, "CPY", "ZeroPage">>, <<197, "CMP", "ZeroPage">>,
    <<198, "DEC", "ZeroPage">>, <<200, "INY", "Implied">>, <<201, "CMP", "Immediate">>,
    <<202, "DEX", "Implied">>, <<204, "CPY", "Absolute">>, <<205, "CMP", "Absolute">>,
    <<206, "DEC", "Absolute">>, <<208, "BNE", "Relative">>, <<209, "CMP", "IndirectY">>,
    <<213, "CMP", "ZeroPageX">>, <<214, "DEC", "ZeroPageX">>, <<216, "CLD", "Implied">>,
    <<217, "CMP", "AbsoluteY">>, <<221, "CMP", "AbsoluteX">>, <<222, "DEC", "AbsoluteX">>,
    <<224, "CPX", "Immediate">>, <<225, "SBC", "IndirectX">>, <<228, "CPX", "ZeroPage">>,
    <<229, "SBC", "ZeroPage">>, <<230, "INC", "ZeroPage">>, <<232, "INX", "Implied">>,
    <<233, "SBC", "Immediate">>, <<234, "NOP", "Implied">>, <<236, "CPX", "Absolute">>,
    <<237, "SBC", "Absolute">>, <<238, "INC", "Absolute">>, <<240, "BEQ", "Relative">>,
    <<241, "SBC", "IndirectY">>, <<245, "SBC", "ZeroPageX">>, <<246, "INC", "ZeroPageX">>,
    <<248, "SED", "Implied">>, <<249, "SBC", "AbsoluteY">>, <<253, "SBC", "AbsoluteX">>,
    <<254, "INC", "AbsoluteX">>
}

operand_bytes(mode) ==
    CASE mode \in {"Implied", "Accumulator"} -> 0
      [] mode \in {"Immediate", "Relative", "ZeroPage", "ZeroPageX", "ZeroPageY",
                   "IndirectX", "IndirectY"} -> 1
      [] mode \in {"Absolute", "AbsoluteX", "AbsoluteY", "Indirect"} -> 2

LegalBytes == {d[1] : d \in OpCodeTable}

\* OpCode::from_raw_byte; NoOpCode stands for None
NoOpCode == [code |-> 0 - 1, mnemonic |-> "", mode |-> "Unknown", length |-> 0]

\* the table indexed by byte
Descriptors ==
    [byte \in 0 .. 255 |->
        IF byte \in LegalBytes
        THEN LET d == CHOOSE e \in OpCodeTable : e[1] = byte
             IN  [code |-> d[1], mnemonic |-> d[2], mode |-> d[3],
                  length |-> 1 + operand_bytes(d[3])]
        ELSE NoOpCode]

from_raw_byte(byte) == Descriptors[byte]

----------------------------------------------------------------------------
(* cpu::registers, cpu::flags, cpu::stack (spec.md 3, 4.3-4.5) *)

NewRegisters == [A |-> 0, X |-> 0, Y |-> 0, PC |-> 0, SP |-> INITIAL_SP]

NewFlags == [carry |-> FALSE, zero |-> FALSE, interrupt_disabled |-> FALSE,
             decimal |-> FALSE, brk |-> FALSE, overflow |-> FALSE, sign |-> FALSE]

NewStack == [pointer |-> INITIAL_SP]

\* Stack::push on the stack page: the byte goes to offset `pointer` of the
\* page that starts at STACK_START (top of stack = 0x0100 | SP), then the
\* pointer is decremented, saturating at 0.  c is a Cpu.  The Stack keeps its
\* own pointer: brk hands it the page only, so registers.SP never moves.
\* The tests of cpu.rs that run into zeroed memory execute BRK on a fresh
\* Cpu and return, so a push at the initial pointer stays inside the page.
stack_push(c, value) ==
    [c EXCEPT !.memory = write_byte(c.memory, STACK_START + c.stack.pointer, value),
              !.stack.pointer = IF c.stack.pointer = 0 THEN 0 ELSE c.stack.pointer - 1]

\* Stack::push_u16: high byte first, then low byte
stack_push_u16(c, value) ==
    stack_push(stack_push(c, value \div 256), value % 256)

----------------------------------------------------------------------------
(* cpu::cpu: the Cpu, its operands and its opcode handlers.  A Cpu value c *)
(* is the record [memory, registers, flags, stack].                        *)

NewCpu == [memory |-> EmptyMemory, registers |-> NewRegisters,
           flags |-> NewFlags, stack |-> NewStack]

TheCpu == [memory |-> memory, registers |-> registers, flags |-> flags, stack |-> stack]

\* enum Operand; panic marks an operand whose address arithmetic overflowed
Operand(kind, value) == [kind |-> kind, value |-> value, panic |-> IsOverflow(value)]

get_operand_from_opcode(c, opcode) ==
    LET operand_start == AddU16(c.registers.PC, 1)
        X == c.registers.X
        Y == c.registers.Y
        mem == c.memory
    IN  IF IsOverflow(operand_start) THEN Operand("Implied", Overflow)
        ELSE CASE opcode.mode = "Implied" -> Operand("Implied", 0)
               [] opcode.mode = "Immediate" ->
                    Operand("Immediate", read_byte(mem, operand_start))
               [] opcode.mode = "Relative" ->
                    Operand("Immediate", read_byte(mem, operand_start))
               [] opcode.mode = "Accumulator" -> Operand("Implied", 0)
               [] opcode.mode = "ZeroPage" ->
                    Operand("Memory", BitAnd(read_byte(mem, operand_start), 255))
               [] opcode.mode = "ZeroPageX" ->
                    Operand("Memory", BitAnd(X + read_byte(mem, operand_start), 255))
               [] opcode.mode = "ZeroPageY" ->
                    Operand("Memory", BitAnd(Y + read_byte(mem, operand_start), 255))
               [] opcode.mode = "Absolute" ->
                    Operand("Memory", read_u16(mem, operand_start))
               [] opcode.mode = "AbsoluteX" ->
                    Operand("Memory", AddU16(X, read_u16(mem, operand_start)))
               [] opcode.mode = "AbsoluteY" ->
                    Operand("Memory", AddU16(Y, read_u16(mem, operand_start)))
               [] opcode.mode = "Indirect" ->
                    Operand("Memory", read_u16(mem, read_u16(mem, operand_start)))
               [] opcode.mode = "IndirectX" ->
                    Operand("Memory",
                            read_u16(mem, BitAnd(X + read_byte(mem, operand_start), 255)))
               [] opcode.mode = "IndirectY" ->
                    Operand("Memory",
                            AddU16(Y, read_u16(mem, read_byte(mem, operand_start))))

unwrap_immediate(c, operand) ==
    CASE operand.kind = "Immediate" -> operand.value
      [] operand.kind = "Memory" -> read_byte(c.memory, operand.value)
      [] operand.kind = "Implied" -> 0

unwrap_address(operand) ==
    CASE operand.kind = "Immediate" -> operand.value
      [] operand.kind = "Memory" -> operand.value
      [] operand.kind = "Implied" -> 0

\* adc that takes the zero flag from the binary sum, before the decimal
\* adjustment
adc_zero_from_binary_sum(c) ==
    LET carry == IF c.flags.carry THEN 1 ELSE 0
        value == read_byte(c.memory, AddU16(c.registers.PC, 1))
        A == c.registers.A
        binary == A + value + carry
        adjusted == IF (BitAnd(A, 15) + BitAnd(value, 15) + carry) > 9
                    THEN binary + 6 ELSE binary
        decimal == IF adjusted > 153 THEN adjusted + 96 ELSE adjusted
        result == IF c.flags.decimal THEN decimal ELSE binary
    IN  [c EXCEPT
           !.flags.carry = IF c.flags.decimal THEN BitAnd(result, 256) = 256
                           ELSE result > 255,
           !.flags.zero = BitAnd(AsU8(binary), 255) = 0,
           !.flags.sign = BitAnd(result, 128) = 128,
           !.flags.overflow =
               BitAnd(BitAnd(BitXor(A, result), BitXor(value, result)), 128) = 128,
           !.registers.A = BitAnd(AsU8(result), 255)]

adc(c) ==
    LET carry == IF c.flags.carry THEN 1 ELSE 0
        value == read_byte(c.memory, AddU16(c.registers.PC, 1))
        A == c.registers.A
        binary == A + value + carry
        adjusted == IF (BitAnd(A, 15) + BitAnd(value, 15) + carry) > 9
                    THEN binary + 6 ELSE binary
        decimal == IF adjusted > 153 THEN adjusted + 96 ELSE adjusted
        result == IF c.flags.decimal THEN decimal ELSE binary
    IN  [c EXCEPT
           !.flags.carry = IF c.flags.decimal THEN BitAnd(result, 256) = 256
                           ELSE result > 255,
           !.flags.zero = BitAnd(AsU8(result), 255) = 0,
           !.flags.sign = BitAnd(result, 128) = 128,
           !.flags.overflow =
               BitAnd(BitAnd(BitXor(A, result), BitXor(value, result)), 128) = 128,
           !.registers.A = BitAnd(AsU8(result), 255)]

and(c, operand) ==
    LET value == unwrap_immediate(c, operand)
        result == BitAnd(c.registers.A, value)
    IN  [c EXCEPT !.registers.A = result,
                  !.flags.zero = BitAnd(AsU8(result), 255) = 0,
                  !.flags.sign = BitAnd(result, 128) = 128]

\* asl that leaves the shifted value in A whatever the operand
asl_result_in_a(c, operand) ==
    LET old == IF operand.kind = "Implied" THEN c.registers.A
               ELSE unwrap_immediate(c, operand)
        value == AsU8(old * 2)
    IN  [c EXCEPT !.flags.carry = BitAnd(old, 128) = 128,
                  !.flags.sign = BitAnd(value, 128) = 128,
                  !.flags.zero = BitAnd(AsU8(value), 255) = 0,
                  !.registers.A = value]

asl(c, operand) ==
    LET old == IF operand.kind = "Implied" THEN c.registers.A
               ELSE unwrap_immediate(c, operand)
        value == AsU8(old * 2)
        c1 == [c EXCEPT !.flags.carry = BitAnd(old, 128) = 128,
                        !.flags.sign = BitAnd(value, 128) = 128,
                        !.flags.zero = BitAnd(AsU8(value), 255) = 0]
    IN  IF operand.kind = "Implied"
        THEN [c1 EXCEPT !.registers.A = value]
        ELSE [c1 EXCEPT !.memory = write_byte(c.memory, unwrap_address(operand), value)]

relative_jump(c, offset) ==
    IF BitAnd(offset, 128) = 128
    THEN [c EXCEPT !.registers.PC = SubU16(c.registers.PC, 256 - offset)]
    ELSE [c EXCEPT !.registers.PC = AddU16(c.registers.PC, offset)]

bcc(c, operand) ==
    IF ~c.flags.carry THEN relative_jump(c, unwrap_immediate(c, operand)) ELSE c

bcs(c, operand) ==
    IF c.flags.carry THEN relative_jump(c, unwrap_immediate(c, operand)) ELSE c

beq(c, operand) ==
    IF c.flags.zero THEN relative_jump(c, unwrap_immediate(c, operand)) ELSE c

\* bit that keeps A & M in A, as AND does
bit_storing_result(c, operand) ==
    LET value == unwrap_immediate(c, operand)
        result == BitAnd(value, c.registers.A)
    IN  [c EXCEPT !.registers.A = result,
                  !.flags.zero = (result = 0),
                  !.flags.sign = BitAnd(value, 128) = 128,
                  !.flags.overflow = BitAnd(value, 64) = 64]

bit(c, operand) ==
    LET a == c.registers.A
        value == unwrap_immediate(c, operand)
        result == BitAnd(value, a)
    IN  [c EXCEPT !.flags.zero = (result = 0),
                  !.flags.sign = BitAnd(value, 128) = 128,
                  !.flags.overflow = BitAnd(value, 64) = 64]

bmi(c, operand) ==
    IF c.flags.sign THEN relative_jump(c, unwrap_immediate(c, operand)) ELSE c

bne(c, operand) ==
    IF ~c.flags.zero THEN relative_jump(c, unwrap_immediate(c, operand)) ELSE c

bpl(c, operand) ==
    IF ~c.flags.sign THEN relative_jump(c, unwrap_immediate(c, operand)) ELSE c

\* pushes PC + 1 on the stack page and does nothing else: no flags pushed,
\* no flag set, PC left to the length add of step
brk(c) == stack_push_u16(c, AddU16(c.registers.PC, 1))

lda(c, operand) ==
    LET value == unwrap_immediate(c, operand)
    IN  [c EXCEPT !.registers.A = value,
                  !.flags.sign = BitAnd(value, 128) = 128,
                  !.flags.zero = BitAnd(value, 255) = 0]

\* sta that sets zero and sign from A, as LDA does
sta_setting_flags(c, operand) ==
    [c EXCEPT !.memory = write_byte(c.memory, unwrap_address(operand), c.registers.A),
              !.flags.sign = BitAnd(c.registers.A, 128) = 128,
              !.flags.zero = BitAnd(c.registers.A, 255) = 0]

sta(c, operand) ==
    [c EXCEPT !.memory = write_byte(c.memory, unwrap_address(operand), c.registers.A)]

set_decimal_flag(c, value) == [c EXCEPT !.flags.decimal = value]

\* the mnemonics the match in step has an arm for
Dispatched == {"ADC", "AND", "ASL", "BCC", "BCS", "BEQ", "BIT", "BMI", "BNE", "BPL",
               "BRK", "CLD", "LDA", "SED", "STA"}

dispatch(c, opcode, operand) ==
    CASE opcode.mnemonic = "ADC" -> adc(c)
      [] opcode.mnemonic = "AND" -> and(c, operand)
      [] opcode.mnemonic = "ASL" -> asl(c, operand)
      [] opcode.mnemonic = "BCC" -> bcc(c, operand)
      [] opcode.mnemonic = "BCS" -> bcs(c, operand)
      [] opcode.mnemonic = "BEQ" -> beq(c, operand)
      [] opcode.mnemonic = "BIT" -> bit(c, operand)
      [] opcode.mnemonic = "BMI" -> bmi(c, operand)
      [] opcode.mnemonic = "BNE" -> bne(c, operand)
      [] opcode.mnemonic = "BPL" -> bpl(c, operand)
      [] opcode.mnemonic = "BRK" -> brk(c)
      [] opcode.mnemonic = "CLD" -> set_decimal_flag(c, FALSE)
      [] opcode.mnemonic = "LDA" -> lda(c, operand)
      [] opcode.mnemonic = "SED" -> set_decimal_flag(c, TRUE)
      [] opcode.mnemonic = "STA" -> sta(c, operand)

----------------------------------------------------------------------------
(* Results of the calls: CpuLoadResult and CpuStepResult.  "Panic" is a    *)
(* call that did not return.                                               *)

NoError == <<>>
unknown_opcode(addr, byte) == <<"UnknownOpcode", addr, byte>>
code_segment_out_of_range(addr) == <<"CodeSegmentOutOfRange", addr>>

Outcome(result, error, c) == [result |-> result, error |-> error, cpu |-> c]

\* an error return that has already moved PC past the opcode byte
step_unknown_opcode_skipping(c, byte) ==
    Outcome("Err", unknown_opcode(c.registers.PC, byte),
            [c EXCEPT !.registers.PC = (c.registers.PC + 1) % MEMORY_LEN])

\* the error return of step: the Cpu is left as it was
step_unknown_opcode(c, byte) == Outcome("Err", unknown_opcode(c.registers.PC, byte), c)

\* Cpu::step on the Cpu c
step(c) ==
    LET byte == read_byte(c.memory, c.registers.PC)
        opcode == from_raw_byte(byte)
    IN  IF opcode = NoOpCode
        THEN step_unknown_opcode(c, byte)
        ELSE LET operand == get_operand_from_opcode(c, opcode)
             IN  IF operand.panic THEN Outcome("Panic", NoError, c)
                 ELSE IF opcode.mnemonic \notin Dispatched
                 THEN step_unknown_opcode(c, opcode.code)
                 ELSE LET c1 == dispatch(c, opcode, operand)
                          pc == AddU16(c1.registers.PC, opcode.length)
                      IN  IF IsOverflow(c1.registers.PC)
                          THEN Outcome("Panic", NoError, c)
                          ELSE IF IsOverflow(pc)
                          THEN Outcome("Panic", NoError, c1)
                          ELSE Outcome("Ok", NoError, [c1 EXCEPT !.registers.PC = pc])

\* step_n without the test of PC before each step
RECURSIVE step_n_unguarded(_, _)
step_n_unguarded(c, n) ==
    IF n = 0 THEN Outcome("Ok", NoError, c)
    ELSE LET out == step(c)
         IN  IF out.result = "Ok" THEN step_n_unguarded(out.cpu, n - 1) ELSE out

\* Cpu::step_n on the Cpu c: the loop `for _ in 0..n`, one turn per level;
\* `?` returns the error of a failed step, a panic of step ends the call
RECURSIVE step_n(_, _)
step_n(c, n) ==
    IF n = 0 THEN Outcome("Ok", NoError, c)
    ELSE IF c.registers.PC < (MEMORY_LEN - 1) % (U16_MAX + 1)
         THEN LET out == step(c)
              IN  IF out.result = "Ok" THEN step_n(out.cpu, n - 1) ELSE out
         ELSE Outcome("Ok", NoError, c)

\* None of Option<u16>
None == 0 - 1

\* the bytes the loop of load has written when it has run `count` times
load_writes(mem, code, addr, count) ==
    LET target(a) == (a - addr) % MEMORY_LEN
        value(a) == IF target(a) < count THEN code[target(a) + 1] ELSE read_byte(mem, a)
        touched == {(addr + x) % MEMORY_LEN : x \in 0 .. (count - 1)}
        dom == {a \in DOMAIN mem \cup touched : value(a) # 0}
    IN  [a \in dom |-> value(a)]

\* Cpu::load on the Cpu c, for a code slice of at most MEMORY_LEN bytes
load(c, code, addr) ==
    IF addr # None /\ addr + Len(code) > U16_MAX
    THEN Outcome("Err", code_segment_out_of_range(addr), c)
    ELSE LET start == IF addr # None THEN addr ELSE DEFAULT_CODE_SEGMENT_START_ADDRESS
             fits == MEMORY_LEN - start
         IN  IF overflow_checks /\ Len(code) > fits
             THEN Outcome("Panic", NoError,
                          [c EXCEPT !.memory = load_writes(c.memory, code, start, fits)])
             ELSE Outcome("Ok", NoError,
                          [c EXCEPT !.memory = load_writes(c.memory, code, start, Len(code)),
                                    !.registers.PC = start])

----------------------------------------------------------------------------
(* The programs and addresses the Cpu is driven with *)

\* the byte of a (mnemonic, mode) pair of the opcode table
Op(mnemonic, mode) == (CHOOSE d \in OpCodeTable : d[2] = mnemonic /\ d[3] = mode)[1]

\* mnemonics of the table that step has no arm for, a few of them
Undispatched == {"BVC", "BVS", "LDX", "JMP", "NOP"}

Exercised == {d \in OpCodeTable : d[2] \in Dispatched \cup Undispatched}

OneByteOps == {d[1] : d \in {e \in Exercised : operand_bytes(e[3]) = 0}} \cup {195, 255}
TwoByteOps == {d[1] : d \in {e \in Exercised : operand_bytes(e[3]) = 1}}
ThreeByteOps == {d[1] : d \in {e \in Exercised : operand_bytes(e[3]) = 2}}

AccValues == {0, 5, 127, 128, 149, 240, 255}
OperandBytes == {0, 1, 3, 5, 16, 68, 127, 128, 252, 255}
OperandWords == {<<0, 0>>, <<68, 0>>, <<0, 32>>, <<1, 192>>, <<255, 255>>}
CarrySeeds == {128, 132, 136, 200, 204}

LDA_IMM == Op("LDA", "Immediate")
STA_ZP == Op("STA", "ZeroPage")
ASL_ACC == Op("ASL", "Accumulator")
SED_IMP == Op("SED", "Implied")
ADC_IMM == Op("ADC", "Immediate")

\* the code segments of the tests of cpu.rs
TestPrograms == {
    <<10, 11, 12, 13>>, <<195>>, <<248>>, <<216>>,
    <<169, 5, 105, 3>>, <<169, 253, 105, 5>>,
    <<248, 169, 5, 105, 5>>, <<248, 169, 149, 105, 16>>,
    <<169, 32, 141, 0, 32>>, <<169, 255, 41, 15>>, <<169, 2, 10>>, <<169, 128, 10>>,
    <<169, 254, 105, 1, 144, 3, 169, 0>>, <<169, 240, 105, 1, 144, 252>>,
    <<169, 255, 105, 1, 176, 3, 169, 170>>, <<169, 240, 105, 16, 240, 3, 169, 170>>,
    <<169, 240, 36, 0>>, <<169, 240, 133, 68, 36, 68>>,
    <<169, 127, 105, 1, 48, 3, 169, 0>>, <<169, 254, 105, 1, 208, 3, 169, 170>>,
    <<169, 255, 105, 1, 208, 3, 169, 170>>, <<169, 254, 16, 3, 169, 243>>,
    <<169, 14, 16, 3, 169, 243>> }

\* LDA #a, then one instruction
SingleInstructionPrograms ==
    {<<LDA_IMM, a, op>> : a \in AccValues, op \in OneByteOps}
    \cup {<<LDA_IMM, a, op, b>> : a \in AccValues, op \in TwoByteOps, b \in OperandBytes}
    \cup {<<LDA_IMM, a, op, w[1], w[2]>> :
            a \in AccValues, op \in ThreeByteOps, w \in OperandWords}

\* LDA #s, ASL A leaves carry = bit 7 of s; then one two-byte instruction
CarryPrograms ==
    {<<LDA_IMM, s, ASL_ACC, op, b>> :
        s \in CarrySeeds, op \in {ADC_IMM, Op("BCC", "Relative"), Op("BCS", "Relative")},
        b \in OperandBytes}

\* SED, then ADC in decimal mode, with carry clear or seeded
DecimalPrograms ==
    {<<SED_IMP, LDA_IMM, a, op, b>> :
        a \in AccValues \cup {9, 153}, op \in {ADC_IMM, Op("ADC", "ZeroPage")},
        b \in OperandBytes \cup {9, 153}}
    \cup {<<SED_IMP, LDA_IMM, s, ASL_ACC, ADC_IMM, b>> :
            s \in CarrySeeds, b \in OperandBytes \cup {9, 153}}

\* LDA #v, STA $44, LDA #a, then one zero-page instruction on $44
MemoryPrograms ==
    {<<LDA_IMM, v, STA_ZP, 68, LDA_IMM, a, op, 68>> :
        v \in AccValues \cup {64}, a \in AccValues,
        op \in {Op("ADC", "ZeroPage"), Op("AND", "ZeroPage"), Op("ASL", "ZeroPage"),
                Op("BIT", "ZeroPage"), Op("LDA", "ZeroPage")}}

\* a code segment one byte longer than the room above the default address
LongProgram == [i \in 1 .. (MEMORY_LEN - DEFAULT_CODE_SEGMENT_START_ADDRESS + 1) |-> ASL_ACC]

\* LDA #a, BIT $44 leaves zero and sign unrelated to A; then a store
FlagPrograms ==
    {<<LDA_IMM, a, Op("BIT", "ZeroPage"), 68, op, b>> :
        a \in AccValues, op \in {STA_ZP, Op("STA", "ZeroPageX")}, b \in {16, 68}}

Programs == TestPrograms \cup SingleInstructionPrograms \cup CarryPrograms
            \cup DecimalPrograms \cup MemoryPrograms \cup FlagPrograms \cup {LongProgram}

LoadAddresses == {None, 0, 65531, 65532, 65533}

\* a data segment for the zero page, loaded before the program
DataSegments == {<<192, 69, 0, 128>>}
DataAddresses == {68}

\* X and Y the owner sets: X = 1 and Y = 255 reach the wraps of every indexed mode
IndexValues == {<<1, 255>>}

----------------------------------------------------------------------------
(* assembler::token (spec.md 4.8) and assembler::parser.  A token is the   *)
(* record [kind, text]: kind is the variant of Token (Label, OpCode, or    *)
(* one variant per addressing mode), text its string.  A token stream is a *)
(* sequence of lines, each a sequence of tokens.                           *)

Token(kind, text) == [kind |-> kind, text |-> text]

AddressingModes == {"Implied", "Accumulator", "Immediate", "Relative", "ZeroPage",
                    "ZeroPageX", "ZeroPageY", "Absolute", "AbsoluteX", "AbsoluteY",
                    "Indirect", "IndirectX", "IndirectY"}

\* Token::to_addressing_mode: the mode of an operand token; a Label or an
\* OpCode has none
to_addressing_mode(token) ==
    IF token.kind \in AddressingModes THEN token.kind ELSE "Unknown"

\* OpCode::from_mnemonic_and_addressing_mode; NoOpCode stands for None
from_mnemonic_and_addressing_mode(mnemonic, mode) ==
    IF \E d \in OpCodeTable : d[2] = mnemonic /\ d[3] = mode
    THEN from_raw_byte((CHOOSE d \in OpCodeTable : d[2] = mnemonic /\ d[3] = mode)[1])
    ELSE NoOpCode

\* ParserError: the message names the kind of error and the line
expected_instruction(line) == <<"Instruction expected. Line", line>>
invalid_opcode_addressing_mode_combination(line) ==
    <<"Invalid addressing mode for opcode. Line", line>>
unexpected_eol(line) == <<"Unexpected end of line. Line", line>>

\* Parser::new
NewParser(tokens) == [tokens |-> tokens, line |-> 0]

\* what a piece of parse hands back: Ok, Err with its error, or Panic
Verdict(result, error) == [result |-> result, error |-> error]

\* Parser::handle_opcode; peeker is what is left of the line, the OpCode
\* token in front.  `peeker.next(); peeker.peek().unwrap()` panics when the
\* line ends after the OpCode.
handle_opcode(peeker, token, line) ==
    IF Len(peeker) = 0
    THEN Verdict("Err", unexpected_eol(line))
    ELSE LET rest == Tail(peeker)
         IN  IF Len(rest) = 0
             THEN Verdict("Panic", NoError)
             ELSE LET addressing_mode == to_addressing_mode(Head(rest))
                  IN  IF token.kind = "OpCode"
                      THEN IF from_mnemonic_and_addressing_mode(token.text, addressing_mode)
                                # NoOpCode
                           THEN Verdict("Ok", NoError)
                           ELSE Verdict("Err",
                                        invalid_opcode_addressing_mode_combination(line))
                      ELSE Verdict("Err", expected_instruction(line))

\* the body of the loop of parse, for the line `tokens` numbered `line`:
\* `peeker.peek().unwrap()` panics on an empty line; only a line that starts
\* with a Label is looked at
parse_line(tokens, line) ==
    IF Len(tokens) = 0
    THEN Verdict("Panic", NoError)
    ELSE IF Head(tokens).kind = "Label"
         THEN LET peeker == Tail(tokens)
              IN  IF Len(peeker) = 0
                  THEN Verdict("Err", expected_instruction(line))
                  ELSE IF Head(peeker).kind = "OpCode"
                       THEN handle_opcode(peeker, Head(peeker), line)
                       ELSE Verdict("Err", expected_instruction(line))
         ELSE Verdict("Ok", NoError)

\* a result that keeps only the lines parse has looked at
returned_tokens_inspected_only(tokens) ==
    SelectSeq(tokens, LAMBDA l : Len(l) > 0 /\ Head(l).kind = "Label")

\* `self.tokens.iter().map(|v| v.clone()).collect()`: a copy of every line
returned_tokens(tokens) == [i \in 1 .. Len(tokens) |-> tokens[i]]

ParseOutcome(result, error, value, p) ==
    [result |-> result, error |-> error, value |-> value, parser |-> p]

\* the loop of parse from the i-th line on; self.line is counted up before
\* the line is looked at and is never set back
RECURSIVE parse_lines(_, _)
parse_lines(p, i) ==
    IF i > Len(p.tokens)
    THEN ParseOutcome("Ok", NoError, returned_tokens(p.tokens), p)
    ELSE LET p1 == [p EXCEPT !.line = p.line + 1]
             verdict == parse_line(p.tokens[i], p1.line)
         IN  IF verdict.result = "Ok"
             THEN parse_lines(p1, i + 1)
             ELSE ParseOutcome(verdict.result, verdict.error, <<>>, p1)

\* Parser::parse on the Parser p
parse(p) == parse_lines(p, 1)

\* no Parser constructed, no parse called
NoParser == NewParser(<<>>)
NotParsed == [result |-> "None", error |-> NoError, value |-> <<>>, line |-> 0]

----------------------------------------------------------------------------
(* The token streams the Parser is constructed with *)

Tokens == {Token("Label", "MAIN"), Token("OpCode", "LDA"), Token("OpCode", "LDX"),
           Token("OpCode", "CLD"), Token("Immediate", "10"), Token("IndirectY", "10")}

ShortLines == {<<>>} \cup {<<a>> : a \in Tokens} \cup {<<a, b>> : a, b \in Tokens}
Lines == ShortLines \cup {<<a, b, c>> : a, b, c \in Tokens}

\* the token streams of the tests of parser.rs
TestStreams == {
    << <<Token("Label", "MAIN"), Token("Label", "METHOD"), Token("OpCode", "LDA"),
         Token("Immediate", "10")>> >>,
    << <<Token("Label", "MAIN"), Token("OpCode", "LDA"), Token("Immediate", "10")>> >>,
    << <<Token("Label", "MAIN"), Token("OpCode", "LDX"), Token("IndirectY", "10")>> >>,
    << <<Token("Label", "MAIN"), Token("OpCode", "LDA"), Token("IndirectY", "10")>> >> }

TokenStreams == TestStreams \cup {<<>>} \cup {<<l>> : l \in Lines}
                \cup {<<l, m>> : l \in Lines, m \in ShortLines}

----------------------------------------------------------------------------
(* The state machine *)

Call(op, code, addr, result, error) ==
    [op |-> op, code |-> code, addr |-> addr, n |-> 0, result |-> result, error |-> error]

Init ==
    /\ memory = NewCpu.memory
    /\ registers = NewCpu.registers
    /\ flags = NewCpu.flags
    /\ stack = NewCpu.stack
    /\ overflow_checks \in BOOLEAN
    /\ call = Call("new", <<>>, None, "Ok", NoError)
    /\ pre = NewCpu
    /\ steps = 0
    /\ loaded = FALSE
    /\ parser = NoParser
    /\ given = <<>>
    /\ parsed = NotParsed
    /\ parses = 0

Returned == call.result # "Panic"

Becomes(c) ==
    /\ memory' = c.memory
    /\ registers' = c.registers
    /\ flags' = c.flags
    /\ stack' = c.stack

\* the owner of the Cpu writes the index registers through the public field
SetIndex ==
    /\ call.op = "new"
    /\ \E xy \in IndexValues : registers' = [registers EXCEPT !.X = xy[1], !.Y = xy[2]]
    /\ call' = Call("write", <<>>, None, "Ok", NoError)
    /\ pre' = TheCpu
    /\ UNCHANGED <<memory, flags, stack, overflow_checks, steps, loaded>>
    /\ UNCHANGED parser_vars

\* cpu.load(data, addr) of a data segment, before the program is loaded
Preload ==
    /\ call.op \in {"new", "write"}
    /\ \E data \in DataSegments, addr \in DataAddresses :
          LET out == load(TheCpu, data, addr)
          IN  /\ Becomes(out.cpu)
              /\ call' = Call("load", data, addr, out.result, out.error)
    /\ pre' = TheCpu
    /\ UNCHANGED <<overflow_checks, steps, loaded>>
    /\ UNCHANGED parser_vars

\* cpu.load(code, addr) of the program, before the first step
Load ==
    /\ Returned
    /\ steps = 0
    /\ ~loaded
    /\ \E code \in Programs, addr \in LoadAddresses :
          LET out == load(TheCpu, code, addr)
          IN  /\ Becomes(out.cpu)
              /\ call' = Call("load", code, addr, out.result, out.error)
    /\ pre' = TheCpu
    /\ loaded' = TRUE
    /\ UNCHANGED <<overflow_checks, steps>>
    /\ UNCHANGED parser_vars

\* cpu.step()
Step ==
    /\ Returned
    /\ steps < MaxSteps
    /\ LET out == step(TheCpu)
       IN  /\ Becomes(out.cpu)
           /\ call' = Call("step", <<>>, None, out.result, out.error)
    /\ pre' = TheCpu
    /\ steps' = steps + 1
    /\ UNCHANGED <<overflow_checks, loaded>>
    /\ UNCHANGED parser_vars

Next == SetIndex \/ Preload \/ Load \/ Step

Spec == Init /\ [][Next]_vars

\* cpu.step_n(n), once, on the Cpu as constructed or as loaded
StepN ==
    /\ Returned
    /\ steps = 0
    /\ \E n \in 0 .. MaxN :
          LET out == step_n(TheCpu, n)
          IN  /\ Becomes(out.cpu)
              /\ call' = [Call("step_n", <<>>, None, out.result, out.error) EXCEPT !.n = n]
    /\ pre' = TheCpu
    /\ steps' = steps + 1
    /\ UNCHANGED <<overflow_checks, loaded>>
    /\ UNCHANGED parser_vars

StepNNext == SetIndex \/ Preload \/ Load \/ StepN

StepNSpec == Init /\ [][StepNNext]_vars

\* Parser::new(tokens), beside a Cpu that is never used
ParserInit ==
    /\ memory = NewCpu.memory
    /\ registers = NewCpu.registers
    /\ flags = NewCpu.flags
    /\ stack = NewCpu.stack
    /\ overflow_checks = FALSE
    /\ call = Call("new", <<>>, None, "Ok", NoError)
    /\ pre = NewCpu
    /\ steps = 0
    /\ loaded = FALSE
    /\ \E tokens \in TokenStreams :
          /\ parser = NewParser(tokens)
          /\ given = tokens
    /\ parsed = NotParsed
    /\ parses = 0

\* parser.parse(), again and again on the same Parser
Parse ==
    /\ parsed.result # "Panic"
    /\ parses < MaxParses
    /\ LET out == parse(parser)
       IN  /\ parser' = out.parser
           /\ parsed' = [result |-> out.result, error |-> out.error,
                         value |-> out.value, line |-> parser.line]
    /\ parses' = parses + 1
    /\ UNCHANGED given
    /\ UNCHANGED cpu_vars

ParserNext == Parse

ParserSpec == ParserInit /\ [][ParserNext]_vars

----------------------------------------------------------------------------
(* Vocabulary of the properties: the last call, its opcode, and the        *)
(* operand the addressing-mode table of spec.md 4.6 assigns to it.         *)

LoadSucceeded == call.op = "load" /\ call.result = "Ok"
StepCalled == call.op = "step"
StepSucceeded == call.op = "step" /\ call.result = "Ok"
StepFailed == call.op = "step" /\ call.result = "Err"

\* the address load was asked to use
LoadAddress == IF call.addr = None THEN DEFAULT_CODE_SEGMENT_START_ADDRESS ELSE call.addr

\* the opcode byte the last step found at PC, and its descriptor
PreByte == read_byte(pre.memory, pre.registers.PC)
PreOpCode == from_raw_byte(PreByte)

\* op1 and op2 of spec.md 4.6, for the instruction at the PC of c
Op1(c) == read_byte(c.memory, (c.registers.PC + 1) % MEMORY_LEN)
Op2(c) == read_u16(c.memory, (c.registers.PC + 1) % MEMORY_LEN)

\* the effective address of a memory addressing mode (spec.md 4.6)
EffectiveAddress(c, mode) ==
    CASE mode = "ZeroPage" -> Op1(c)
      [] mode = "ZeroPageX" -> (Op1(c) + c.registers.X) % 256
      [] mode = "ZeroPageY" -> (Op1(c) + c.registers.Y) % 256
      [] mode = "Absolute" -> Op2(c)
      [] mode = "AbsoluteX" -> (Op2(c) + c.registers.X) % MEMORY_LEN
      [] mode = "AbsoluteY" -> (Op2(c) + c.registers.Y) % MEMORY_LEN
      [] mode = "Indirect" -> read_u16(c.memory, Op2(c))
      [] mode = "IndirectX" -> read_u16(c.memory, (Op1(c) + c.registers.X) % 256)
      [] mode = "IndirectY" -> (read_u16(c.memory, Op1(c)) + c.registers.Y) % MEMORY_LEN

MemoryModes == {"ZeroPage", "ZeroPageX", "ZeroPageY", "Absolute", "AbsoluteX",
                "AbsoluteY", "Indirect", "IndirectX", "IndirectY"}

\* the operand value M of an instruction: the immediate byte, or the byte at
\* the effective address
OperandValue(c, mode) ==
    IF mode \in MemoryModes THEN read_byte(c.memory, EffectiveAddress(c, mode))
    ELSE Op1(c)

PreAddress == EffectiveAddress(pre, PreOpCode.mode)
PreValue == OperandValue(pre, PreOpCode.mode)

\* every byte of memory but those at the addresses in `except` is as before
MemoryUnchangedBut(except) ==
    \A a \in (DOMAIN memory \cup DOMAIN pre.memory) \ except :
        read_byte(memory, a) = read_byte(pre.memory, a)

Bit7(v) == (v \div 128) % 2 = 1
Bit6(v) == (v \div 64) % 2 = 1

\* sign extension of an 8-bit offset
Sext8(offset) == IF offset >= 128 THEN offset - 256 ELSE offset

----------------------------------------------------------------------------
(* C1: a successful load(code, addr) puts code[i] at memory[addr + i] for  *)
(* every i < code.len(), leaves every other byte of memory as it was, and  *)
(* sets PC to addr, where addr is the given address or 0xC000.             *)
C1_LoadWritesTheSegment ==
    LoadSucceeded =>
        /\ \A i \in 0 .. (Len(call.code) - 1) :
              /\ LoadAddress + i < MEMORY_LEN
              /\ read_byte(memory, LoadAddress + i) = call.code[i + 1]
        /\ MemoryUnchangedBut(LoadAddress .. (LoadAddress + Len(call.code) - 1))
        /\ registers.PC = LoadAddress

(* C2: load returns CodeSegmentOutOfRange(addr) exactly when                *)
(* addr + code.len() > 0x10000, with a given address and with the default; *)
(* a segment that ends at or before 0xFFFF loads.                          *)
C2_LoadFailsExactlyPastTheEnd ==
    call.op = "load" =>
        IF LoadAddress + Len(call.code) > MEMORY_LEN
        THEN call.result = "Err" /\ call.error = code_segment_out_of_range(LoadAddress)
        ELSE call.result = "Ok"

(* C3: a step that fails returns UnknownOpcode(PC, memory[PC]) and leaves  *)
(* the whole Cpu (registers, flags, memory, stack) as it was before the    *)
(* call, also after earlier successful steps.                              *)
C3_FailedStepChangesNothing ==
    StepFailed =>
        /\ call.error = <<"UnknownOpcode", pre.registers.PC, PreByte>>
        /\ TheCpu = pre
        /\ registers.PC = pre.registers.PC

\* a step fails after two that succeeded, on a byte the opcode table knows
C3_Witness ==
    /\ StepFailed
    /\ steps = 3
    /\ PreByte \in LegalBytes
    /\ registers.PC # DEFAULT_CODE_SEGMENT_START_ADDRESS

(* C4: step returns UnknownOpcode only for a byte without a descriptor in  *)
(* the opcode table; on every legal opcode byte step succeeds.             *)
C4_LegalOpcodesExecute ==
    StepCalled =>
        IF PreByte \in LegalBytes THEN call.result = "Ok" ELSE call.result = "Err"

\* the predicate of each branch mnemonic on the flags f
BranchTaken(mnemonic, f) ==
    CASE mnemonic = "BCC" -> ~f.carry
      [] mnemonic = "BCS" -> f.carry
      [] mnemonic = "BNE" -> ~f.zero
      [] mnemonic = "BEQ" -> f.zero
      [] mnemonic = "BPL" -> ~f.sign
      [] mnemonic = "BMI" -> f.sign
      [] mnemonic = "BVC" -> ~f.overflow
      [] mnemonic = "BVS" -> f.overflow

Branches == {"BCC", "BCS", "BNE", "BEQ", "BPL", "BMI", "BVC", "BVS"}

(* C5: a branch opcode (BCC, BCS, BNE, BEQ, BPL, BMI, BVC, BVS) leaves PC  *)
(* at PC_before + length + sext8(offset) when its predicate holds and at   *)
(* PC_before + length when it does not, and changes nothing but PC.        *)
C5_BranchesLandOnTarget ==
    (StepCalled /\ call.result # "Panic" /\ PreOpCode.mnemonic \in Branches) =>
        /\ registers.PC =
              (pre.registers.PC + PreOpCode.length
                 + (IF BranchTaken(PreOpCode.mnemonic, pre.flags) THEN Sext8(Op1(pre)) ELSE 0))
              % MEMORY_LEN
        /\ registers = [pre.registers EXCEPT !.PC = registers.PC]
        /\ flags = pre.flags
        /\ memory = pre.memory
        /\ stack = pre.stack

(* C6: with the decimal flag clear, ADC of the operand value M leaves      *)
(* A = (A + M + C) mod 256, carry = (A + M + C > 255), overflow = the      *)
(* signed-overflow rule on the sum, zero = (A = 0), sign = bit 7 of A.     *)
C6_AdcBinary ==
    (StepSucceeded /\ PreOpCode.mnemonic = "ADC" /\ ~pre.flags.decimal) =>
        LET A == pre.registers.A
            M == PreValue
            r == A + M + (IF pre.flags.carry THEN 1 ELSE 0)
        IN  /\ registers.A = r % 256
            /\ flags.carry = (r > 255)
            /\ flags.overflow = (Bit7(A) # Bit7(r) /\ Bit7(M) # Bit7(r))
            /\ flags.zero = (registers.A = 0)
            /\ flags.sign = Bit7(registers.A)

\* packed BCD: two decimal digits, one per nibble
ValidBcd(v) == v % 16 <= 9 /\ v \div 16 <= 9
Dec(v) == 10 * (v \div 16) + (v % 16)
Bcd(n) == 16 * (n \div 10) + (n % 10)

(* C7: with the decimal flag set, ADC of packed-BCD A and M leaves A the   *)
(* packed-BCD encoding of (dec(A) + dec(M) + C) mod 100, carry exactly     *)
(* when dec(A) + dec(M) + C >= 100, and the decimal flag set.              *)
C7_AdcDecimal ==
    (/\ StepSucceeded /\ PreOpCode.mnemonic = "ADC" /\ pre.flags.decimal
     /\ ValidBcd(pre.registers.A) /\ ValidBcd(PreValue)) =>
        LET sum == Dec(pre.registers.A) + Dec(PreValue) + (IF pre.flags.carry THEN 1 ELSE 0)
        IN  /\ registers.A = Bcd(sum % 100)
            /\ flags.carry = (sum >= 100)
            /\ flags.decimal

(* C8: BIT of the memory value M sets zero = ((A & M) = 0), overflow =     *)
(* bit 6 of M, sign = bit 7 of M and leaves A, X, Y, SP, carry, decimal    *)
(* and all of memory as they were.                                         *)
C8_BitSetsFlagsOnly ==
    (StepSucceeded /\ PreOpCode.mnemonic = "BIT") =>
        /\ flags.zero = (\A i \in 0 .. 7 : Bit(pre.registers.A, i) = 0 \/ Bit(PreValue, i) = 0)
        /\ flags.overflow = Bit6(PreValue)
        /\ flags.sign = Bit7(PreValue)
        /\ registers = [pre.registers EXCEPT !.PC = registers.PC]
        /\ stack = pre.stack
        /\ flags.carry = pre.flags.carry
        /\ flags.decimal = pre.flags.decimal
        /\ MemoryUnchangedBut({})

\* BIT $44 on 0xF0 with A = 0xF0: overflow and sign set, zero clear, A kept
C8_Witness ==
    /\ StepSucceeded /\ PreOpCode.mnemonic = "BIT"
    /\ PreValue = 240 /\ registers.A = 240
    /\ flags.overflow /\ flags.sign /\ ~flags.zero

(* C9: STA writes A to the byte at the effective address and changes       *)
(* nothing else: the other bytes, the flags, A, X, Y and SP stay, and PC   *)
(* advances by the length of the instruction.                              *)
C9_StaWritesOneByte ==
    (StepSucceeded /\ PreOpCode.mnemonic = "STA") =>
        /\ read_byte(memory, PreAddress) = pre.registers.A
        /\ MemoryUnchangedBut({PreAddress})
        /\ flags = pre.flags
        /\ registers = [pre.registers EXCEPT !.PC = registers.PC]
        /\ stack = pre.stack
        /\ registers.PC = (pre.registers.PC + PreOpCode.length) % MEMORY_LEN

\* an indexed STA has replaced a byte by a different, non-zero A
C9_Witness ==
    /\ StepSucceeded /\ PreOpCode.mnemonic = "STA"
    /\ PreOpCode.mode \in {"ZeroPageX", "AbsoluteX", "AbsoluteY", "IndirectY"}
    /\ pre.registers.X # 0
    /\ registers.A # 0
    /\ read_byte(pre.memory, PreAddress) # registers.A
    /\ read_byte(memory, PreAddress) = registers.A

(* C10: ASL shifts its target left by one bit modulo 256; the target is A  *)
(* in the Accumulator form and otherwise the byte at the effective         *)
(* address, written back there with A untouched; carry is the old bit 7,   *)
(* zero and sign are those of the shifted value.                           *)
C10_AslShiftsTarget ==
    (StepSucceeded /\ PreOpCode.mnemonic = "ASL") =>
        LET inA == PreOpCode.mode \in {"Accumulator", "Implied"}
            old == IF inA THEN pre.registers.A ELSE PreValue
            new == (2 * old) % 256
        IN  /\ IF inA
               THEN registers.A = new /\ MemoryUnchangedBut({})
               ELSE /\ read_byte(memory, PreAddress) = new
                    /\ MemoryUnchangedBut({PreAddress})
                    /\ registers.A = pre.registers.A
            /\ flags.carry = Bit7(old)
            /\ flags.zero = (new = 0)
            /\ flags.sign = Bit7(new)

\* ASL on a byte of memory with bit 7 set: carry out, the byte rewritten
C10_Witness ==
    /\ StepSucceeded /\ PreOpCode.mnemonic = "ASL"
    /\ PreOpCode.mode \notin {"Accumulator", "Implied"}
    /\ PreValue >= 129
    /\ flags.carry
    /\ read_byte(memory, PreAddress) = (2 * PreValue) % 256
    /\ registers.A # read_byte(memory, PreAddress)

----------------------------------------------------------------------------
(* Vocabulary of the properties of step_n *)

StepNCalled == call.op = "step_n"

\* the Cpu after k calls of step on the Cpu c
RECURSIVE StepsFrom(_, _)
StepsFrom(c, k) == IF k = 0 THEN c ELSE step(StepsFrom(c, k - 1)).cpu

\* PC of c is at or past the last byte of memory
AtEndOfMemory(c) == c.registers.PC >= MEMORY_LEN - 1

(* C11: step_n(n) does what calling step again and again does, at most n   *)
(* times: with k the first count at which n steps are done, PC is at       *)
(* 0xFFFF or beyond, or the next step does not succeed, step_n leaves the  *)
(* Cpu of k successful steps; it returns Ok when it stopped for n or for   *)
(* PC, and otherwise ends as the failing step ends, with that step's       *)
(* error and no further instruction executed.                              *)
C11_StepNIsRepeatedStep ==
    StepNCalled =>
        LET n == call.n
            Ends(j) == \/ j = n
                       \/ AtEndOfMemory(StepsFrom(pre, j))
                       \/ step(StepsFrom(pre, j)).result # "Ok"
            k == CHOOSE j \in 0 .. n : Ends(j) /\ \A i \in 0 .. (j - 1) : ~Ends(i)
            last == StepsFrom(pre, k)
        IN  IF k = n \/ AtEndOfMemory(last)
            THEN call.result = "Ok" /\ call.error = NoError /\ TheCpu = last
            ELSE /\ call.result = step(last).result
                 /\ call.error = step(last).error
                 /\ TheCpu = step(last).cpu
                 /\ (call.result = "Err" => TheCpu = last)

\* step_n(3) on a three-byte program loaded at 0xFFFC: two steps, then PC is
\* 0xFFFF and the third step is not made
C11_Witness ==
    /\ StepNCalled /\ call.result = "Ok"
    /\ call.n = 3
    /\ pre.registers.PC = 65532
    /\ registers.PC = MEMORY_LEN - 1
    /\ TheCpu = StepsFrom(pre, 2)
    /\ TheCpu # StepsFrom(pre, 3)

\* StatusFlags packed as N V - B D I Z C, bit 5 left out
PackedFlags(f) ==
    (IF f.sign THEN 128 ELSE 0) + (IF f.overflow THEN 64 ELSE 0)
    + (IF f.brk THEN 16 ELSE 0) + (IF f.decimal THEN 8 ELSE 0)
    + (IF f.interrupt_disabled THEN 4 ELSE 0) + (IF f.zero THEN 2 ELSE 0)
    + (IF f.carry THEN 1 ELSE 0)

\* the address of the stack page `below` bytes under the top of stack of c
StackAddress(c, below) == STACK_START + ((c.stack.pointer - below) % 256)

(* C12: BRK at PC pushes the word PC + 2, high byte first, then the packed *)
(* flags with B = 1, sets interrupt_disabled, and leaves PC at the word    *)
(* stored at 0xFFFE/0xFFFF.                                                *)
C12_BrkEntersTheHandler ==
    (StepSucceeded /\ PreOpCode.mnemonic = "BRK") =>
        LET return == (pre.registers.PC + 2) % MEMORY_LEN
            pushed == read_byte(memory, StackAddress(pre, 2))
        IN  /\ read_byte(memory, StackAddress(pre, 0)) = return \div 256
            /\ read_byte(memory, StackAddress(pre, 1)) = return % 256
            /\ pushed - 32 * Bit(pushed, 5) = PackedFlags([pre.flags EXCEPT !.brk = TRUE])
            /\ flags.interrupt_disabled
            /\ registers.PC = read_u16(pre.memory, MEMORY_LEN - 2)

(* C13: for every PC holding an opcode step has a handler for, step        *)
(* completes without aborting and leaves PC = PC + length, plus the sign-  *)
(* extended offset when a branch is taken, modulo 2^16.                    *)
C13_PcArithmeticWraps ==
    (StepCalled /\ PreOpCode.mnemonic \in Dispatched) =>
        /\ call.result = "Ok"
        /\ registers.PC =
              (pre.registers.PC + PreOpCode.length
                 + (IF /\ PreOpCode.mnemonic \in Branches
                       /\ BranchTaken(PreOpCode.mnemonic, pre.flags)
                    THEN Sext8(Op1(pre)) ELSE 0))
              % MEMORY_LEN

(* C14: after a successful LDA, AND, ADC or ASL, zero = (result byte = 0)  *)
(* and sign = bit 7 of the result byte, the result byte being the value    *)
(* just written: A, or for ASL on memory the byte at the effective         *)
(* address.                                                                *)
C14_ZeroAndSignFollowTheResult ==
    (StepSucceeded /\ PreOpCode.mnemonic \in {"LDA", "AND", "ADC", "ASL"}) =>
        LET written == IF PreOpCode.mnemonic = "ASL" /\ PreOpCode.mode \in MemoryModes
                       THEN read_byte(memory, PreAddress)
                       ELSE registers.A
        IN  /\ flags.zero = (written = 0)
            /\ flags.sign = Bit7(written)

\* ADC in decimal mode: 0x99 + 0x01 leaves A = 0x00 with the zero flag set,
\* although the binary sum 0x9A is not zero
C14_Witness ==
    /\ StepSucceeded /\ PreOpCode.mnemonic = "ADC"
    /\ pre.flags.decimal /\ ~pre.flags.carry
    /\ pre.registers.A = 153 /\ Op1(pre) = 1
    /\ registers.A = 0 /\ flags.zero /\ ~flags.sign

----------------------------------------------------------------------------
(* Vocabulary of the properties of parse: the shapes of a line after       *)
(* spec.md 4.8, and where the last call of parse ended.                    *)

ParseCalled == parsed.result # "None"
ParseSucceeded == parsed.result = "Ok"

\* the 1-based index in the stream of the last line the last call looked at
StoppedAt == parser.line - parsed.line

\* the last call did not get past the i-th line: an error or a panic there
EndedAt(i) == parsed.result \in {"Err", "Panic"} /\ StoppedAt = i

\* the line number an error of the last call carries for the i-th line
LineNumber(i) == parsed.line + i

Labelled(l) == Len(l) > 0 /\ l[1].kind = "Label"
LabelOnly(l) == Len(l) = 1 /\ l[1].kind = "Label"

\* the line after its optional label
Body(l) == IF Labelled(l) THEN Tail(l) ELSE l

HasInstruction(l) == Len(Body(l)) > 0 /\ Body(l)[1].kind = "OpCode"
Mnemonic(l) == Body(l)[1].text

\* the pair (mnemonic, mode) is in the opcode table
InTable(mnemonic, mode) == \E d \in OpCodeTable : d[2] = mnemonic /\ d[3] = mode

\* Label?, OpCode and an operand token
WithOperand(l) == HasInstruction(l) /\ Len(Body(l)) >= 2
OperandMode(l) == to_addressing_mode(Body(l)[2])

\* Label?, OpCode and nothing after it
WithoutOperand(l) == HasInstruction(l) /\ Len(Body(l)) = 1

\* Label?, OpCode, Operand with a pair of the opcode table
LegalInstruction(l) ==
    HasInstruction(l) /\ Len(Body(l)) = 2 /\ InTable(Mnemonic(l), OperandMode(l))

\* every line before the i-th is a legal instruction with its operand
LegalBefore(i) == \A j \in 1 .. (i - 1) : LegalInstruction(given[j])

(* C15: when parse succeeds, the token stream it returns is the one the    *)
(* Parser was constructed with: as many lines, and on each line the same   *)
(* tokens in the same order.                                               *)
C15_ParseReturnsTheTokens ==
    ParseSucceeded =>
        /\ Len(parsed.value) = Len(given)
        /\ \A i \in 1 .. Len(given) :
              /\ Len(parsed.value[i]) = Len(given[i])
              /\ \A j \in 1 .. Len(given[i]) : parsed.value[i][j] = given[i][j]

\* two lines come back: a labelled legal instruction and an unlabelled line
C15_Witness ==
    /\ ParseSucceeded
    /\ Len(given) = 2
    /\ Labelled(given[1]) /\ LegalInstruction(given[1])
    /\ Len(given[2]) = 2 /\ ~Labelled(given[2])
    /\ parsed.value = given

(* C16: a line with an OpCode token and an operand token, labelled or not, *)
(* is accepted only if (mnemonic, mode of the operand token) is in the     *)
(* opcode table; otherwise parse returns                                   *)
(* InvalidOpcodeAddressingModeCombination with the number of that line.    *)
C16_IllegalPairsAreRejected ==
    ParseCalled =>
        \A i \in 1 .. Len(given) :
            (/\ WithOperand(given[i])
             /\ ~InTable(Mnemonic(given[i]), OperandMode(given[i]))
             /\ LegalBefore(i)) =>
                /\ parsed.result = "Err"
                /\ parsed.error = invalid_opcode_addressing_mode_combination(LineNumber(i))

(* C17: a line that is one Label and nothing else is a valid line: parse   *)
(* reports no error for it.                                                *)
C17_LabelAloneIsAccepted ==
    ParseCalled =>
        \A i \in 1 .. Len(given) :
            (LabelOnly(given[i]) /\ LegalBefore(i)) => ~EndedAt(i)

(* C18: a line Label?, OpCode without an operand token is accepted when    *)
(* (mnemonic, Implied) or (mnemonic, Accumulator) is in the opcode table,  *)
(* and otherwise makes parse return UnexpectedEol with the number of that  *)
(* line.                                                                   *)
C18_NoOperandMeansImplied ==
    ParseCalled =>
        \A i \in 1 .. Len(given) :
            (WithoutOperand(given[i]) /\ LegalBefore(i)) =>
                IF \/ InTable(Mnemonic(given[i]), "Implied")
                   \/ InTable(Mnemonic(given[i]), "Accumulator")
                THEN ~EndedAt(i)
                ELSE /\ parsed.result = "Err"
                     /\ parsed.error = unexpected_eol(LineNumber(i))

(* C19: after an optional single leading Label the next token must be an   *)
(* OpCode: a line whose next token is anything else, a second Label or an  *)
(* operand token, labelled or not, makes parse return ExpectedInstruction  *)
(* with the number of that line.                                           *)
C19_InstructionExpected ==
    ParseCalled =>
        \A i \in 1 .. Len(given) :
            (/\ Len(Body(given[i])) > 0
             /\ Body(given[i])[1].kind # "OpCode"
             /\ LegalBefore(i)) =>
                /\ parsed.result = "Err"
                /\ parsed.error = expected_instruction(LineNumber(i))

(* C20: for ADC with a memory addressing mode the value added to A is the  *)
(* byte at the effective address of the operand, not the operand byte that *)
(* follows the opcode; in binary mode the value added is                   *)
(* (A_after - A_before - C) mod 256.                                       *)
C20_AdcAddsTheMemoryOperand ==
    (/\ StepSucceeded /\ PreOpCode.mnemonic = "ADC"
     /\ PreOpCode.mode \in MemoryModes /\ ~pre.flags.decimal) =>
        LET C == IF pre.flags.carry THEN 1 ELSE 0
            added == (registers.A - pre.registers.A - C) % 256
        IN  added = read_byte(pre.memory, PreAddress)

(* C21: in decimal mode as in binary mode ADC takes the zero flag from the *)
(* binary sum, before any decimal adjustment:                              *)
(* zero = (((A + M + C) & 0xFF) = 0); stated for ADC #imm, where M is the  *)
(* byte that follows the opcode.                                           *)
C21_AdcZeroFromBinarySum ==
    (StepSucceeded /\ PreOpCode.mnemonic = "ADC" /\ PreOpCode.mode = "Immediate") =>
        LET C == IF pre.flags.carry THEN 1 ELSE 0
            sum == pre.registers.A + Op1(pre) + C
        IN  flags.zero = (sum % 256 = 0)

\* the modes whose effective address adds an index register
IndexedModes == {"ZeroPageX", "ZeroPageY", "AbsoluteX", "AbsoluteY", "IndirectX",
                 "IndirectY"}

(* C22: the addressing-mode resolver never aborts and wraps: for the       *)
(* opcode at PC in an indexed mode it yields Memory(effective address),    *)
(* the zero-page sums taken modulo 256 and the final address modulo 2^16.  *)
C22_ResolverWraps ==
    (StepCalled /\ PreOpCode # NoOpCode /\ PreOpCode.mode \in IndexedModes) =>
        /\ call.result # "Panic"
        /\ get_operand_from_opcode(pre, PreOpCode) = Operand("Memory", PreAddress)

\* the kinds of ParserError
ParserErrors == {expected_instruction(0)[1],
                 invalid_opcode_addressing_mode_combination(0)[1],
                 unexpected_eol(0)[1]}

(* C23: parse is total: for every token stream, also one with an empty     *)
(* line or a line that ends right after its OpCode, it returns Ok or one   *)
(* of ExpectedInstruction, InvalidOpcodeAddressingModeCombination,         *)
(* UnexpectedEol, and never aborts.                                        *)
C23_ParseIsTotal ==
    ParseCalled =>
        \/ parsed.result = "Ok"
        \/ parsed.result = "Err" /\ parsed.error[1] \in ParserErrors

\* the first call of parse on a Parser made of the stream `given`
FirstParse == parse(NewParser(given))

\* the 1-based index of the first line of `given` that parse rejects
FirstRejected ==
    CHOOSE i \in 1 .. Len(given) :
        /\ parse_line(given[i], i).result # "Ok"
        /\ \A j \in 1 .. (i - 1) : parse_line(given[j], j).result = "Ok"

(* C24: the line number of a ParserError is the 1-based index, in the      *)
(* token stream, of the first line parse rejects, and parse is repeatable: *)
(* every call on the same Parser returns what the first call returned,     *)
(* with the same line number.                                              *)
C24_ParseIsRepeatable ==
    ParseCalled =>
        /\ parsed.result = FirstParse.result
        /\ parsed.error = FirstParse.error
        /\ (parsed.result = "Err" => parsed.error[2] = FirstRejected)

====
